---- MODULE Spec2Model ----
(***************************************************************************)
(* The solana-will program (src/src/program-rust/src/lib.rs): one will     *)
(* account, its owner and two inheritors.  One action is one call of       *)
(* process_instruction, modelled as the function is written: what it has   *)
(* stored in the accounts it was handed when it returns (or aborts).       *)
(***************************************************************************)
EXTENDS Integers, Sequences, FiniteSets

\* ------------------------------------------------------------- bounds
MaxLen == 2      \* longest list a Set Inheritance message carries
MaxShare == 2    \* largest share weight a message carries
MaxU64 == 3      \* u64::MAX, scaled: lamports are kept modulo MaxU64 + 1
MaxNow == 302    \* the clock stops here

\* ---------------------------------------------------------- constants
timeout == 300

seed == "solana-will.com/my/v3/1"
program_id == "will_program"
OtherProgram == "system_program"

Senders == {"O", "B1", "B2"}
\* Who tries the owner's instructions: the owner and one other.
OwnerOpSenders == {"O", "B1"}
\* Who sends the instructions that do nothing.
NoOpSenders == {"B2"}
Inheritors == {"B1", "B2"}
Names == {"n", "long"}
NoOpSelectors == {3, 255}

\* Pubkey::to_string (line 47): the base58 text of a key.
to_string(pubkey) ==
    CASE pubkey = "O" -> "base58_O"
      [] pubkey = "B1" -> "base58_B1"
      [] pubkey = "B2" -> "base58_B2"

\* Pubkey::create_with_seed: a hash of its three inputs, injective here.
create_with_seed(base, s, owner) == <<base, s, owner>>

\* Byte length of a string of the model as borsh writes it.
StrLen(s) ==
    CASE s = "n" -> 1
      [] s = "long" -> 1000
      [] OTHER -> 44

\* ------------------------------------------------------------ helpers
RECURSIVE SumLen(_)
SumLen(strs) ==
    IF strs = <<>> THEN 0 ELSE 4 + StrLen(Head(strs)) + SumLen(Tail(strs))

Repeat(x, n) == [i \in 1..n |-> x]

\* ------------------------------------------------------ the will record
\* struct WillData, and its borsh layout: u8, i64, then three vectors, each a
\* u32 count and its items (a string is a u32 count and its bytes).
WillData(version, ts, names, pubkeys, shares) ==
    [schema_version |-> version, withdraw_allowed_ts |-> ts,
     inheritors_names |-> names, inheritors_pubkeys |-> pubkeys,
     inheritors_shares |-> shares]

BorshSize(will) ==
    1 + 8 + (4 + SumLen(will.inheritors_names))
          + (4 + SumLen(will.inheritors_pubkeys))
          + (4 + 2 * Len(will.inheritors_shares))

\* A freshly allocated account holds zero bytes: version 0, time 0, three
\* empty vectors.
ZeroWill == WillData(0, 0, <<>>, <<>>, <<>>)

\* The account's byte buffer: the record its bytes spell, or the cut-off
\* start of a record that did not fit.
Bytes(will) == [truncated |-> FALSE, will |-> will]
Truncated == [truncated |-> TRUE, will |-> ZeroWill]

\* Account sizes: the four bytes of the repository's test, and room for
\* MaxLen full entries with one-letter names.
Spaces == {4, 21 + 55 * MaxLen}

VARIABLES
    now,      \* Clock::get()?.unix_timestamp
    account,  \* the will account: key, owner, lamports, space, data
    last,     \* the last step: an invocation's selector, sender, argument (the
              \* amount asked for, or the message of a Set Inheritance), result,
              \* and by how much the sender's lamports changed
    track,    \* whether hist is kept
    hist      \* history of the successful claims

vars == <<now, account, last, track, hist>>

\* WillData::deserialize(&mut &account.data.borrow()[..]) succeeds when the
\* buffer holds a whole record (bytes after it are ignored).
Decodes(acct) ==
    /\ ~acct.data.truncated
    /\ BorshSize(acct.data.will) <= acct.space

\* will_data.serialize(&mut &mut account.data.borrow_mut()[..]): writes until
\* the buffer is full, and fails when bytes are left over.
Fits(acct, will) == BorshSize(will) <= acct.space

Serialized(acct, will) ==
    [acct EXCEPT !.data = IF Fits(acct, will) THEN Bytes(will) ELSE Truncated]

\* ------------------------------------------------------ WillData methods
\* A gate that also opens at the deadline itself.
check_released_at_deadline(will, t) == will.withdraw_allowed_ts <= t

check_released(will, t) == will.withdraw_allowed_ts < t

\* A scan that does not stop at the first entry found.
MatchesEveryEntry(will, i, pubkeystr, found_index) ==
    /\ will.inheritors_shares[i + 1] > 0
    /\ will.inheritors_pubkeys[i + 1] = pubkeystr

Matches(will, i, pubkeystr, found_index) ==
    /\ will.inheritors_shares[i + 1] > 0
    /\ will.inheritors_pubkeys[i + 1] = pubkeystr
    /\ found_index = Len(will.inheritors_shares)

\* The loop of get_share, entry i (counted from 0) onwards.  Indexing
\* inheritors_pubkeys past its end panics.
RECURSIVE get_share_loop(_, _, _, _, _, _)
get_share_loop(will, pubkeystr, i, total_shares, inheritor_shares, found_index) ==
    IF i >= Len(will.inheritors_shares)
    THEN [panic |-> FALSE, inheritor_shares |-> inheritor_shares,
          total_shares |-> total_shares, found_index |-> found_index]
    ELSE LET share == will.inheritors_shares[i + 1]
         IN IF share > 0 /\ i >= Len(will.inheritors_pubkeys)
            THEN [panic |-> TRUE, inheritor_shares |-> inheritor_shares,
                  total_shares |-> total_shares + share, found_index |-> found_index]
            ELSE IF Matches(will, i, pubkeystr, found_index)
                 THEN get_share_loop(will, pubkeystr, i + 1, total_shares + share,
                                     inheritor_shares + share, i)
                 ELSE get_share_loop(will, pubkeystr, i + 1, total_shares + share,
                                     inheritor_shares, found_index)

\* A scan that leaves the share it found out of the total.
get_share_of_the_others(will, inheritor) ==
    LET share == get_share_loop(will, to_string(inheritor), 0, 0, 0,
                                Len(will.inheritors_shares))
    IN [share EXCEPT !.total_shares = @ - share.inheritor_shares]

get_share(will, inheritor) ==
    get_share_loop(will, to_string(inheritor), 0, 0, 0, Len(will.inheritors_shares))

\* ------------------------------------------------------------- u64
Wrap(x) == x % (MaxU64 + 1)

\* a -= b and a += b on u64: with overflow checks the program panics, without
\* them the value wraps; the build decides.
SubU64(a, b) ==
    IF b <= a THEN {[panic |-> FALSE, val |-> a - b]}
    ELSE {[panic |-> TRUE, val |-> a], [panic |-> FALSE, val |-> Wrap(a - b)]}

AddU64(a, b) ==
    IF a + b <= MaxU64 THEN {[panic |-> FALSE, val |-> a + b]}
    ELSE {[panic |-> TRUE, val |-> a], [panic |-> FALSE, val |-> Wrap(a + b)]}

\* Both operations run in one build: after a -= b has wrapped, the += that
\* follows it wraps too.
SameBuild(a, b, added) == {add \in added : add.panic => b <= a}

\* ------------------------------------------------------- instructions
\* SetInheritenceMessage.  The owner sends every list of up to MaxLen entries
\* that starts with B1 (B1 and B2 are interchangeable), the shares 1 or
\* MaxShare; lists of zero shares; lists whose three vectors differ in length;
\* a list too long for the account; and bytes that do not decode.
SetMessage(names, pubkeys, shares) ==
    [selector |-> 0, wellformed |-> TRUE, inheritors_names |-> names,
     inheritors_pubkeys |-> pubkeys, inheritors_shares |-> shares]

PubkeyStrings == {to_string(k) : k \in Inheritors}
ShareValues == {1, MaxShare}

ConsistentMessages ==
    UNION {{SetMessage(Repeat("n", n), pubkeys, shares) :
               pubkeys \in {p \in [1..n -> PubkeyStrings] : n = 0 \/ p[1] = to_string("B1")},
               shares \in [1..n -> ShareValues]} :
           n \in 0..MaxLen}

ZeroShareMessages ==
    {SetMessage(Repeat("n", n), Repeat(to_string("B1"), n), Repeat(0, n)) : n \in 1..MaxLen}

MismatchedMessages ==
    UNION {{SetMessage(Repeat("n", n - 1), Repeat(to_string("B1"), n), Repeat(1, n)),
            SetMessage(Repeat("n", n), Repeat(to_string("B1"), n - 1), Repeat(1, n)),
            SetMessage(Repeat("n", n), Repeat(to_string("B1"), n), Repeat(1, n - 1))} :
           n \in 1..MaxLen}

OversizedMessages == {SetMessage(<<"long">>, <<to_string("B1")>>, <<1>>)}

Malformed(selector) == [selector |-> selector, wellformed |-> FALSE]

SetMessages ==
    ConsistentMessages \cup ZeroShareMessages \cup MismatchedMessages
        \cup OversizedMessages \cup {Malformed(0)}

\* The others name themselves the only heir.
SetMessagesOf(sender) ==
    IF sender = "O" THEN SetMessages
    ELSE {SetMessage(<<"n">>, <<to_string(sender)>>, <<MaxShare>>)}

\* WithdrawSolMessage.  The owner asks for every amount; the others for one
\* lamport.
WithdrawMessage(lamports) == [selector |-> 1, wellformed |-> TRUE, lamports |-> lamports]

WithdrawMessages == {WithdrawMessage(n) : n \in 0..MaxU64} \cup {Malformed(1)}

WithdrawMessagesOf(sender) ==
    IF sender = "O" THEN WithdrawMessages ELSE {WithdrawMessage(1)}

\* What a sender's own account holds when it invokes the program.
SenderLamports == {0, 1}

\* ------------------------------------------------------- the processor
\* What an invocation leaves: its result, the will account, the sender's lamports.
Outcome(res, acct, lamports) == [res |-> res, account |-> acct, lamports |-> lamports]

\* A guard that accepts whoever presents a will account, its owner or not.
check_ownership_of_anyone(account_key, sender_key, pid) ==
    \E s \in Senders : account_key = create_with_seed(s, seed, pid)

check_ownership(account_key, sender_key, pid) ==
    account_key = create_with_seed(sender_key, seed, pid)

\* Five minutes taken for five seconds.
NewDeadlineInMinutes(t) == t + 5

NewDeadline(t) == t + timeout

\* A Set Inheritance that adds its lists to the lists of the record.
set_inheritance_appending(acct, sender, lamports, ix, t) ==
    IF ~check_ownership(acct.key, sender, program_id)
    THEN {Outcome("IncorrectProgramId", acct, lamports)}
    ELSE IF ~Decodes(acct) \/ ~ix.wellformed
    THEN {Outcome("BorshIoError", acct, lamports)}
    ELSE LET will_data == WillData(1, NewDeadline(t),
                                   acct.data.will.inheritors_names \o ix.inheritors_names,
                                   acct.data.will.inheritors_pubkeys \o ix.inheritors_pubkeys,
                                   acct.data.will.inheritors_shares \o ix.inheritors_shares)
         IN {Outcome(IF Fits(acct, will_data) THEN "Ok" ELSE "BorshIoError",
                     Serialized(acct, will_data), lamports)}

\* 0 -> Modify inheritors (lines 103-114).
set_inheritance(acct, sender, lamports, ix, t) ==
    IF ~check_ownership(acct.key, sender, program_id)
    THEN {Outcome("IncorrectProgramId", acct, lamports)}
    ELSE IF ~Decodes(acct) \/ ~ix.wellformed
    THEN {Outcome("BorshIoError", acct, lamports)}
    ELSE LET will_data == WillData(1, NewDeadline(t), ix.inheritors_names,
                                   ix.inheritors_pubkeys, ix.inheritors_shares)
         IN {Outcome(IF Fits(acct, will_data) THEN "Ok" ELSE "BorshIoError",
                     Serialized(acct, will_data), lamports)}

\* 1 - withdraw own funds SOL (lines 117-127).
withdraw_sol(acct, sender, lamports, ix, t) ==
    IF ~check_ownership(acct.key, sender, program_id)
    THEN {Outcome("IncorrectProgramId", acct, lamports)}
    ELSE IF ~ix.wellformed
    THEN {Outcome("BorshIoError", acct, lamports)}
    ELSE UNION {
        IF sub.panic THEN {Outcome("Panic", acct, lamports)}
        ELSE LET debited == [acct EXCEPT !.lamports = sub.val]
             IN UNION {
                 IF add.panic THEN {Outcome("Panic", debited, lamports)}
                 ELSE IF ~Decodes(debited)
                 THEN {Outcome("BorshIoError", debited, add.val)}
                 ELSE LET will_data ==
                              [debited.data.will EXCEPT
                                  !.withdraw_allowed_ts = NewDeadline(t)]
                      IN {Outcome("Ok", Serialized(debited, will_data), add.val)}
                 : add \in SameBuild(acct.lamports, ix.lamports,
                                      AddU64(lamports, ix.lamports))}
        : sub \in SubU64(acct.lamports, ix.lamports)}

\* The share taken of the whole balance, multiplying before dividing.
lamports_to_transfer_exact(balance, total_shares, inheritor_shares) ==
    Wrap((balance * inheritor_shares) \div total_shares)

lamports_to_transfer(balance, total_shares, inheritor_shares) ==
    Wrap((balance \div total_shares) * inheritor_shares)

\* A claim that forgets to mark the entry claimed.
ZeroShareForgotten(will, inheritor_index) == will

\* A claim that moves the deadline on as well.
ZeroShareAndRelock(will, inheritor_index) ==
    [will EXCEPT !.inheritors_shares[inheritor_index + 1] = 0,
                 !.withdraw_allowed_ts = @ + timeout]

\* will_data.inheritors_shares[inheritor_index] = 0 (line 142).
ZeroShare(will, inheritor_index) ==
    [will EXCEPT !.inheritors_shares[inheritor_index + 1] = 0]

\* 2 - withdraw inheritance (lines 130-144).  Dividing by a total of 0 panics.
withdraw_inheritance(acct, sender, lamports, t) ==
    IF ~Decodes(acct)
    THEN {Outcome("BorshIoError", acct, lamports)}
    ELSE IF ~check_released(acct.data.will, t)
    THEN {Outcome("Custom1", acct, lamports)}
    ELSE LET will_data == acct.data.will
             share == get_share(will_data, sender)
         IN IF share.panic THEN {Outcome("Panic", acct, lamports)}
            ELSE IF share.inheritor_shares = 0
            THEN {Outcome("Custom2", acct, lamports)}
            ELSE IF share.total_shares = 0
            THEN {Outcome("DivideByZero", acct, lamports)}
            ELSE LET amount == lamports_to_transfer(acct.lamports, share.total_shares,
                                                    share.inheritor_shares)
                 IN UNION {
                     IF sub.panic THEN {Outcome("Panic", acct, lamports)}
                     ELSE LET debited == [acct EXCEPT !.lamports = sub.val]
                          IN UNION {
                              IF add.panic THEN {Outcome("Panic", debited, lamports)}
                              ELSE {Outcome("Ok",
                                            Serialized(debited,
                                                       ZeroShare(will_data, share.found_index)),
                                            add.val)}
                              : add \in AddU64(lamports, amount)}
                     : sub \in SubU64(acct.lamports, amount)}

\* A processor that does not look at who owns the account.
process_instruction_of_any_owner(acct, sender, lamports, ix, t) ==
    CASE ix.selector = 0 -> set_inheritance(acct, sender, lamports, ix, t)
      [] ix.selector = 1 -> withdraw_sol(acct, sender, lamports, ix, t)
      [] ix.selector = 2 -> withdraw_inheritance(acct, sender, lamports, t)
      [] OTHER -> {Outcome("Ok", acct, lamports)}

\* process_instruction, handed both accounts and at least one byte (lines 80-189).
process_instruction(acct, sender, lamports, ix, t) ==
    IF acct.owner # program_id
    THEN {Outcome("IncorrectProgramId", acct, lamports)}
    ELSE CASE ix.selector = 0 -> set_inheritance(acct, sender, lamports, ix, t)
           [] ix.selector = 1 -> withdraw_sol(acct, sender, lamports, ix, t)
           [] ix.selector = 2 -> withdraw_inheritance(acct, sender, lamports, t)
           [] OTHER -> {Outcome("Ok", acct, lamports)}

\* ------------------------------------------------------------ history
NoHist == [claimed |-> {}, sole |-> {}, owner_ts |-> -1]

\* The entries a claim of sender can match.
PositiveEntries(will, sender) ==
    {i \in 1..Len(will.inheritors_shares) :
        /\ will.inheritors_shares[i] > 0
        /\ i <= Len(will.inheritors_pubkeys)
        /\ will.inheritors_pubkeys[i] = to_string(sender)}

\* hist.claimed: who has ever claimed with success.  hist.sole: who has, since
\* the last successful Set Inheritance, claimed with success holding exactly
\* one entry a claim could match.  hist.owner_ts: the time of the last
\* successful Set Inheritance or Withdraw Own, -1 before the first.
Recorded(sender, selector, res) ==
    IF ~track \/ res # "Ok" THEN hist
    ELSE CASE selector = 0 -> [hist EXCEPT !.sole = {}, !.owner_ts = now]
           [] selector = 1 -> [hist EXCEPT !.owner_ts = now]
           [] selector = 2 ->
                [hist EXCEPT
                    !.claimed = @ \cup {sender},
                    !.sole = IF Cardinality(PositiveEntries(account.data.will, sender)) = 1
                             THEN @ \cup {sender} ELSE @ \ {sender}]
           [] OTHER -> hist

Call(selector, sender, arg, res, credited) ==
    [selector |-> selector, sender |-> sender, arg |-> arg, res |-> res,
     credited |-> credited]

NoCall == Call(-1, "none", 0, "none", 0)

\* The lamports of all accounts together fit a u64.
SenderLamportsNow == {l \in SenderLamports : l + account.lamports <= MaxU64}

\* ------------------------------------------------------------ actions
SetInheritance ==
    \E sender \in OwnerOpSenders :
      \E ix \in SetMessagesOf(sender) :
        \E o \in process_instruction(account, sender, 0, ix, now) :
          /\ account' = o.account
          /\ last' = Call(0, sender, ix, o.res, o.lamports - 0)
          /\ hist' = Recorded(sender, 0, o.res)
          /\ UNCHANGED <<now, track>>

WithdrawSol ==
    \E sender \in OwnerOpSenders, lamports \in SenderLamportsNow :
      \E ix \in WithdrawMessagesOf(sender) :
        \E o \in process_instruction(account, sender, lamports, ix, now) :
          /\ account' = o.account
          /\ last' = Call(1, sender, IF ix.wellformed THEN ix.lamports ELSE 0, o.res,
                          o.lamports - lamports)
          /\ hist' = Recorded(sender, 1, o.res)
          /\ UNCHANGED <<now, track>>

WithdrawInheritance ==
    \E sender \in Senders, lamports \in SenderLamportsNow :
        \E o \in process_instruction(account, sender, lamports,
                                     [selector |-> 2, wellformed |-> TRUE], now) :
          /\ account' = o.account
          /\ last' = Call(2, sender, 0, o.res, o.lamports - lamports)
          /\ hist' = Recorded(sender, 2, o.res)
          /\ UNCHANGED <<now, track>>

NoOp ==
    \E sender \in NoOpSenders, selector \in NoOpSelectors :
        \E o \in process_instruction(account, sender, 0,
                                     [selector |-> selector, wellformed |-> TRUE], now) :
          /\ account' = o.account
          /\ last' = Call(selector, sender, 0, o.res, o.lamports - 0)
          /\ hist' = Recorded(sender, selector, o.res)
          /\ UNCHANGED <<now, track>>

\* Fewer than two accounts: next_account_info fails (lines 91-92).
NotEnoughAccounts ==
    /\ last' = Call(-1, "none", 0, "NotEnoughAccountKeys", 0)
    /\ UNCHANGED <<now, account, track, hist>>

\* The clock moves on, to the deadline or just past it.
Tick ==
    /\ Decodes(account)
    /\ \E t \in {account.data.will.withdraw_allowed_ts,
                 account.data.will.withdraw_allowed_ts + 1} :
          /\ t > now
          /\ t <= MaxNow
          /\ now' = t
    /\ last' = NoCall
    /\ UNCHANGED <<account, track, hist>>

Next ==
    \/ SetInheritance
    \/ WithdrawSol
    \/ WithdrawInheritance
    \/ NoOp
    \/ NotEnoughAccounts
    \/ Tick

\* A new account of either size, owned by the program or not, holding
\* MaxU64 lamports, at its owner's derived address.
InitState ==
    /\ now = 1
    /\ \E owner \in {program_id, OtherProgram}, space \in Spaces :
          account = [key |-> create_with_seed("O", seed, program_id), owner |-> owner,
                     lamports |-> MaxU64, space |-> space, data |-> Bytes(ZeroWill)]
    /\ last = NoCall
    /\ hist = NoHist

Init == InitState /\ track = FALSE

InitHist == InitState /\ track = TRUE

Spec == Init /\ [][Next]_vars

SpecHist == InitHist /\ [][Next]_vars

\* ------------------------------------------------------------- claims
Will == account.data.will

\* The step is an invocation with this selector (last' tells the step: the
\* clock's step clears it).
Invoked(selector) == last'.selector = selector
Succeeded(selector) == last'.selector = selector /\ last'.res = "Ok"
NothingMoved == account' = account /\ last'.credited = 0

RECURSIVE SumShares(_)
SumShares(shares) == IF shares = <<>> THEN 0 ELSE Head(shares) + SumShares(Tail(shares))

EntriesOf(will, sender) ==
    {i \in 1..Len(will.inheritors_shares) :
        i <= Len(will.inheritors_pubkeys) /\ will.inheritors_pubkeys[i] = to_string(sender)}

\* C1 as stated: an identity completes a successful Withdraw Inheritance at
\* most once, over any sequence of invocations.
C1_IdentityClaimsOnce ==
    [][Succeeded(2) => last'.sender \notin hist.claimed]_vars

\* C1, amended: a successful Withdraw Inheritance turns the share of exactly
\* one entry, one that carries the claimant's identity, from positive to 0 and
\* changes nothing else of the record; and no invocation but a successful Set
\* Inheritance changes a share in any other way.  So between two successful
\* Set Inheritance an entry is claimed at most once.
C1_EntryStep ==
    /\ Succeeded(2) =>
          \E i \in PositiveEntries(Will, last'.sender) :
              account'.data = Bytes([Will EXCEPT !.inheritors_shares[i] = 0])
    /\ (~Succeeded(0) /\ Decodes(account) /\ Decodes(account')) =>
          /\ Len(Will'.inheritors_shares) = Len(Will.inheritors_shares)
          /\ \A i \in 1..Len(Will.inheritors_shares) :
                Will'.inheritors_shares[i] \in {Will.inheritors_shares[i], 0}
          /\ Will'.inheritors_shares # Will.inheritors_shares => Succeeded(2)

C1_EntryClaimedOnce == [][C1_EntryStep]_vars

\* A second successful claim of one identity: both its entries are claimed.
C1_Witness ==
    /\ last.selector = 2 /\ last.res = "Ok"
    /\ last.sender \in hist.claimed
    /\ Cardinality({i \in EntriesOf(Will, last.sender) : Will.inheritors_shares[i] = 0}) >= 2
    /\ PositiveEntries(Will, last.sender) = {}

\* C2: on a will account whose record decodes, Withdraw Inheritance at
\* now <= release_deadline (the deadline itself included) fails with Custom(1)
\* and moves nothing; it gets past the gate only when release_deadline < now.
C2_ReleaseBoundary ==
    [][(Invoked(2) /\ account.owner = program_id /\ Decodes(account)) =>
          /\ now <= Will.withdraw_allowed_ts => (last'.res = "Custom1" /\ NothingMoved)
          /\ Will.withdraw_allowed_ts < now => last'.res \in {"Ok", "Custom2", "Panic"}]_vars

\* A claim made at the deadline itself, and refused.
C2_Witness ==
    /\ last.selector = 2 /\ last.res = "Custom1"
    /\ Decodes(account) /\ now = Will.withdraw_allowed_ts

\* C3: Set Inheritance and Withdraw Own on an account that is not at the
\* address derived from the sender fail and move nothing; they succeed only
\* at the derived address.
C3_UnauthorizedRejected ==
    [][(Invoked(0) \/ Invoked(1)) =>
          /\ account.key # create_with_seed(last'.sender, seed, program_id) =>
                (last'.res # "Ok" /\ NothingMoved)
          /\ last'.res = "Ok" =>
                account.key = create_with_seed(last'.sender, seed, program_id)]_vars

\* Somebody else's Withdraw Own on the owner's will account, refused.
C3_Witness ==
    /\ last.selector = 1 /\ last.sender = "B1" /\ last.res = "IncorrectProgramId"
    /\ account.owner = program_id
    /\ account.key = create_with_seed("O", seed, program_id)

\* C4: every successful Set Inheritance and Withdraw Own leaves
\* release_deadline = now + 300, whatever it was before.
C4_DeadlineReset ==
    [][(Succeeded(0) \/ Succeeded(1)) =>
          (Decodes(account') /\ Will'.withdraw_allowed_ts = now + 300)]_vars

\* The owner withdraws after the first deadline (1 + 300) has passed, and
\* the will is locked again.
C4_Witness ==
    /\ last.selector = 1 /\ last.res = "Ok"
    /\ now = 1 + 300 + 1
    /\ Will.withdraw_allowed_ts = now + 300

\* The entry a claim of sender pays on: its first with a positive share.
FirstEntry(will, sender) ==
    CHOOSE i \in PositiveEntries(will, sender) :
        \A j \in PositiveEntries(will, sender) : i <= j

Payout(acct, sender) ==
    (acct.lamports \div SumShares(acct.data.will.inheritors_shares))
        * acct.data.will.inheritors_shares[FirstEntry(acct.data.will, sender)]

\* C5: a successful Withdraw Inheritance moves exactly
\* floor(balance / sum of all shares) * share of the matched entry from the
\* account to the claimant.
C5_ShareComputation ==
    [][Succeeded(2) =>
          /\ PositiveEntries(Will, last'.sender) # {}
          /\ account'.lamports = account.lamports - Payout(account, last'.sender)
          /\ last'.credited = Payout(account, last'.sender)]_vars

\* A claim that paid, left a remainder, and left another entry to claim.
C5_Witness ==
    /\ last.selector = 2 /\ last.res = "Ok" /\ last.credited > 0
    /\ account.lamports > 0
    /\ \E i \in 1..Len(Will.inheritors_shares) : Will.inheritors_shares[i] > 0
    /\ \E i \in 1..Len(Will.inheritors_shares) : Will.inheritors_shares[i] = 0

\* C6: a successful Withdraw Inheritance pays a positive amount.
C6_PositivePayout ==
    [][Succeeded(2) =>
          (last'.credited > 0 /\ account'.lamports < account.lamports)]_vars

\* C7 as stated, of a record that still decodes: once X has claimed holding
\* one matching entry, every later Withdraw Inheritance of X, with no
\* successful Set Inheritance in between, fails with Custom(2) and moves
\* nothing.
C7_SecondClaimCustom2 ==
    [][(Invoked(2) /\ last'.sender \in hist.sole /\ Decodes(account)) =>
          (last'.res = "Custom2" /\ NothingMoved)]_vars

\* C7, amended: every such later claim fails and moves nothing; its error is
\* Custom(2) when the record decodes and is released, Custom(1) when the
\* record decodes and is not released (the owner has withdrawn in between),
\* and the decoder's when the record no longer decodes.
C7_SecondClaimFails ==
    [][(Invoked(2) /\ last'.sender \in hist.sole) =>
          /\ last'.res # "Ok" /\ NothingMoved
          /\ (Decodes(account) /\ Will.withdraw_allowed_ts < now) => last'.res = "Custom2"
          /\ (Decodes(account) /\ now <= Will.withdraw_allowed_ts) => last'.res = "Custom1"
          /\ ~Decodes(account) => last'.res = "BorshIoError"]_vars

\* X claims again after the owner has locked the will again.
C7_Witness ==
    /\ last.selector = 2 /\ last.res = "Custom1"
    /\ last.sender \in hist.sole

\* C8: with several entries of one identity, a successful claim pays on and
\* zeroes its lowest positive entry only; the others stay as they are, open to
\* later claims.
C8_Duplicates ==
    [][Succeeded(2) =>
          /\ PositiveEntries(Will, last'.sender) # {}
          /\ account'.data =
                Bytes([Will EXCEPT
                          !.inheritors_shares[FirstEntry(Will, last'.sender)] = 0])
          /\ last'.credited = Payout(account, last'.sender)
          /\ PositiveEntries(Will', last'.sender)
                = PositiveEntries(Will, last'.sender) \ {FirstEntry(Will, last'.sender)}]_vars

\* A claim that left a later entry of the same identity open.
C8_Witness ==
    /\ last.selector = 2 /\ last.res = "Ok"
    /\ PositiveEntries(Will, last.sender) # {}
    /\ \E i \in EntriesOf(Will, last.sender) :
          /\ Will.inheritors_shares[i] = 0
          /\ \A j \in PositiveEntries(Will, last.sender) : i < j

\* C9: an invocation that returns an error leaves the account and the
\* sender's lamports as they were.
C9_FailureAtomicity ==
    [][(last'.selector >= 0 /\ last'.res # "Ok") => NothingMoved]_vars

\* C10: on a will account whose record decodes, the owner's well-formed
\* Withdraw Own of more than the balance is refused and moves nothing, and of
\* at most the balance moves exactly that amount.
C10_WithdrawOwn ==
    [][(/\ Invoked(1) /\ last'.res # "BorshIoError"
        /\ account.owner = program_id /\ Decodes(account)
        /\ account.key = create_with_seed(last'.sender, seed, program_id)) =>
          IF last'.arg > account.lamports
          THEN last'.res # "Ok" /\ NothingMoved
          ELSE /\ last'.res = "Ok"
               /\ account'.lamports = account.lamports - last'.arg
               /\ last'.credited = last'.arg]_vars

\* C11: the three lists of every stored record that decodes have one length.
C11_ParallelLengths ==
    Decodes(account) =>
        /\ Len(Will.inheritors_names) = Len(Will.inheritors_pubkeys)
        /\ Len(Will.inheritors_pubkeys) = Len(Will.inheritors_shares)

\* The second half of C11: the scan of a claim never indexes an identity that
\* is not there.
C11_ScanInBounds == [][Invoked(2) => last'.res # "Panic"]_vars

\* C12 as stated: every invocation with a selector of 3 or more succeeds and
\* leaves the account and the sender's lamports as they were.
C12_NoOpSucceeds ==
    [][last'.selector >= 3 => (last'.res = "Ok" /\ NothingMoved)]_vars

\* C12, amended: an invocation with a selector of 3 or more leaves the account
\* and the sender's lamports as they were; it succeeds on an account the
\* program owns and fails with IncorrectProgramId on any other.
C12_NoOpFrame ==
    [][last'.selector >= 3 =>
          /\ NothingMoved
          /\ account.owner = program_id => last'.res = "Ok"
          /\ account.owner # program_id => last'.res = "IncorrectProgramId"]_vars

\* A selector of 255 on a will with a registered inheritor.
C12_Witness ==
    /\ last.selector = 255 /\ last.res = "Ok"
    /\ Decodes(account) /\ Will.inheritors_shares # <<>>

\* C13: on a will account whose record decodes, a Withdraw Inheritance of any
\* sender succeeds exactly when the record is released and holds an entry of
\* the sender's identity with a positive share.
C13_ClaimAvailable ==
    [][(Invoked(2) /\ account.owner = program_id /\ Decodes(account)) =>
          (last'.res = "Ok" <=>
              /\ Will.withdraw_allowed_ts < now
              /\ PositiveEntries(Will, last'.sender) # {})]_vars

\* C14: a successful Set Inheritance leaves a record that holds exactly the
\* three lists of its message and schema_version 1, and moves no lamports.
C14_Replaced ==
    [][Succeeded(0) =>
          /\ last'.arg.wellformed
          /\ Decodes(account')
          /\ Will'.schema_version = 1
          /\ Will'.inheritors_names = last'.arg.inheritors_names
          /\ Will'.inheritors_pubkeys = last'.arg.inheritors_pubkeys
          /\ Will'.inheritors_shares = last'.arg.inheritors_shares
          /\ account'.lamports = account.lamports
          /\ last'.credited = 0]_vars

\* The owner registers again an inheritor who had claimed: the new list has
\* no trace of the entry that was zeroed.
C14_Witness ==
    /\ last.selector = 0 /\ last.res = "Ok"
    /\ \E s \in hist.claimed : PositiveEntries(Will, s) # {}
    /\ \A i \in 1..Len(Will.inheritors_shares) : Will.inheritors_shares[i] > 0

\* C15: no Withdraw Inheritance succeeds at a time now <= T + 300, T the time
\* of the last successful Set Inheritance or Withdraw Own on the account; none
\* succeeds before the first.
C15_ProofOfLife ==
    [][Succeeded(2) =>
          (hist.owner_ts >= 0 /\ hist.owner_ts + 300 < now)]_vars

\* The owner has acted again after the first deadline (1 + 300) was reached,
\* and an inheritor with a claimable entry is refused.
C15_Witness ==
    /\ last.selector = 2 /\ last.res = "Custom1"
    /\ hist.owner_ts >= 1 + 300
    /\ now <= hist.owner_ts + 300
    /\ PositiveEntries(Will, last.sender) # {}

\* What the scan of a claim of sender returns on the stored record.
Scan(sender) == get_share(Will, sender)

\* The claim of sender gets as far as line 139: the account is the program's,
\* its record decodes and is released, the scan ends and finds a share.
Divides(sender) ==
    /\ account.owner = program_id
    /\ Decodes(account)
    /\ check_released(Will, now)
    /\ ~Scan(sender).panic
    /\ Scan(sender).inheritor_shares # 0

\* C16: whenever a Withdraw Inheritance gets as far as dividing the balance by
\* total_shares, total_shares > 0; no invocation ends in a division by zero.
C16_NoDivisionByZero ==
    [][Invoked(2) =>
          /\ last'.res # "DivideByZero"
          /\ Divides(last'.sender) => Scan(last'.sender).total_shares > 0]_vars

\* A claim on the last positive share of the record: it divided by that share
\* alone, and left a total of 0.
C16_Witness ==
    /\ last.selector = 2 /\ last.res = "Ok"
    /\ Will.inheritors_shares # <<>>
    /\ SumShares(Will.inheritors_shares) = 0

\* C17: a successful Withdraw Inheritance changes, of the record, the share
\* of one entry of the claimant, from positive to 0, and nothing else: the
\* deadline, the version, the names, the identities, the number of entries
\* and every other share stay; no Withdraw Inheritance, failed or not,
\* changes the deadline.
C17_ClaimFrame ==
    [][/\ Succeeded(2) =>
            /\ Decodes(account) /\ Decodes(account')
            /\ Will'.withdraw_allowed_ts = Will.withdraw_allowed_ts
            /\ Will'.schema_version = Will.schema_version
            /\ Will'.inheritors_names = Will.inheritors_names
            /\ Will'.inheritors_pubkeys = Will.inheritors_pubkeys
            /\ Len(Will'.inheritors_shares) = Len(Will.inheritors_shares)
            /\ \E i \in PositiveEntries(Will, last'.sender) :
                  /\ Will'.inheritors_shares[i] = 0
                  /\ \A j \in 1..Len(Will.inheritors_shares) \ {i} :
                        Will'.inheritors_shares[j] = Will.inheritors_shares[j]
       /\ Invoked(2) =>
            /\ account'.data.truncated = account.data.truncated
            /\ Will'.withdraw_allowed_ts = Will.withdraw_allowed_ts]_vars

\* A claim on a list of two inheritors: the other's entry, both names and the
\* deadline that has passed are still there.
C17_Witness ==
    /\ last.selector = 2 /\ last.res = "Ok"
    /\ Len(Will.inheritors_names) = 2
    /\ \E i, j \in 1..Len(Will.inheritors_shares) :
          /\ i <= Len(Will.inheritors_pubkeys) /\ j <= Len(Will.inheritors_pubkeys)
          /\ Will.inheritors_pubkeys[i] = to_string(last.sender)
          /\ Will.inheritors_shares[i] = 0
          /\ Will.inheritors_pubkeys[j] # to_string(last.sender)
          /\ Will.inheritors_shares[j] > 0
    /\ Will.withdraw_allowed_ts < now

\* C18: the amount a Withdraw Inheritance computes,
\* floor(balance / total_shares) * inheritor_shares, is at most the balance
\* (inheritor_shares <= total_shares) and fits a u64; the claim that computes
\* it succeeds, and the account's lamports go down by it, never below 0 and
\* never wrapping.
C18_NoOverdraw ==
    [][(Invoked(2) /\ Divides(last'.sender)) =>
          LET share == Scan(last'.sender)
              amount == (account.lamports \div share.total_shares) * share.inheritor_shares
          IN /\ share.inheritor_shares <= share.total_shares
             /\ amount <= account.lamports
             /\ lamports_to_transfer(account.lamports, share.total_shares,
                                     share.inheritor_shares) = amount
             /\ last'.res = "Ok"
             /\ account'.lamports = account.lamports - amount
             /\ account'.lamports >= 0
             /\ account'.lamports <= account.lamports]_vars

\* A claim of the largest share on the full balance, with another entry in
\* the total: it paid and left a remainder.
C18_Witness ==
    /\ last.selector = 2 /\ last.res = "Ok"
    /\ last.credited >= MaxShare
    /\ account.lamports > 0
    /\ SumShares(Will.inheritors_shares) > 0

\* C19, of a will account whose record decodes: every invocation keeps the
\* sum of the account's and the sender's lamports; lamports move only in
\* Withdraw Own and Withdraw Inheritance.
C19_Conservation ==
    [][(last'.selector >= 0 /\ Decodes(account)) =>
          /\ account'.lamports + last'.credited = account.lamports
          /\ last'.selector \notin {1, 2} =>
                (account'.lamports = account.lamports /\ last'.credited = 0)]_vars

\* What a Withdraw Inheritance of a sender who holds no lamports leaves of
\* acct at time t (the one outcome of the call).
ClaimOf(acct, sender, t) ==
    CHOOSE o \in process_instruction(acct, sender, 0,
                                     [selector |-> 2, wellformed |-> TRUE], t) : TRUE

\* What first and then second receive when they claim, in this order, on
\* the account as it is now.
PaidInOrder(first, second) ==
    LET o1 == ClaimOf(account, first, now)
        o2 == ClaimOf(o1.account, second, now)
    IN [first |-> o1.lamports, second |-> o2.lamports]

\* The record is released, its lists have one length, and its positive
\* entries are one of x and one of y.
TwoHeirs(x, y) ==
    /\ account.owner = program_id
    /\ Decodes(account)
    /\ check_released(Will, now)
    /\ Len(Will.inheritors_names) = Len(Will.inheritors_shares)
    /\ Len(Will.inheritors_pubkeys) = Len(Will.inheritors_shares)
    /\ Cardinality(PositiveEntries(Will, x)) = 1
    /\ Cardinality(PositiveEntries(Will, y)) = 1
    /\ \A i \in 1..Len(Will.inheritors_shares) :
          Will.inheritors_shares[i] > 0 =>
              i \in PositiveEntries(Will, x) \cup PositiveEntries(Will, y)

\* C20: when the two inheritors of a released record both claim, each
\* receives the same amount whichever of them claims first; with equal shares
\* they receive equal amounts.
C20_OrderIndependent ==
    \A x, y \in Senders :
        (x # y /\ TwoHeirs(x, y)) =>
            /\ PaidInOrder(x, y).first = PaidInOrder(y, x).second
            /\ PaidInOrder(x, y).second = PaidInOrder(y, x).first
            /\ Will.inheritors_shares[FirstEntry(Will, x)]
                   = Will.inheritors_shares[FirstEntry(Will, y)]
                 => PaidInOrder(x, y).first = PaidInOrder(x, y).second

====
